---- MODULE Spec2Model ----
(***************************************************************************)
(* Model of the MCQ-generation core of src/main.py:                        *)
(*   split_text_into_chunks (lines 38-40) and generate_mcqs (lines 42-138).*)
(*                                                                         *)
(* Texts are modelled at two levels.  Where the code works on characters   *)
(* (slicing, str.replace, str.split, " ".join) a text is a sequence of     *)
(* one-character strings.  Where the code only compares whole texts        *)
(* (entity texts, noun texts, answer choices) a text is an atomic string.  *)
(*                                                                         *)
(* Four specifications share the variables:                                *)
(*   SpecChunk  - split_text_into_chunks                                   *)
(*   SpecSelect - input guard, sampling and target selection loop          *)
(*   SpecStem   - step 2 of the loop body, the question stem               *)
(*   Spec       - steps 3 and 4 of the loop body, distractors and assembly *)
(* The external services (spaCy annotation, embedding similarity, the      *)
(* random module) are nondeterministic choices over their possible results.*)
(***************************************************************************)
EXTENDS Integers, Sequences, FiniteSets, TLC

VARIABLES
    pc,                 \* position in the modelled function
    text,               \* argument text
    max_chars,          \* argument of split_text_into_chunks
    chunks,             \* result of split_text_into_chunks
    num_questions,      \* argument num_questions
    difficulty,         \* argument difficulty
    all_sentences,      \* sentences of the document (their annotations)
    all_entities,       \* document-wide entities, records [text, label]
    all_nouns,          \* document-wide NOUN token texts
    selected_sentences, \* random.sample result, not yet processed part
    sentence,           \* loop variable (SpecStem: its characters)
    target,
    target_label,
    question_stem,
    candidates,
    distractors,
    answer_choices,
    correct_answer,
    mcqs,               \* result list
    sent_pos            \* number of selected sentences the for loop has taken

vars == <<pc, text, max_chars, chunks, num_questions, difficulty, all_sentences,
          all_entities, all_nouns, selected_sentences, sentence, target,
          target_label, question_stem, candidates, distractors, answer_choices,
          correct_answer, mcqs, sent_pos>>

\* Python's None; also the value of a variable not yet assigned
None == "None"

Min(a, b) == IF a < b THEN a ELSE b

Max(a, b) == IF a > b THEN a ELSE b

\* the set of elements of a sequence
Range(s) == {s[i] : i \in 1..Len(s)}

\* all sequences over S of length at most n
SeqsUpTo(S, n) == UNION {[1..k -> S] : k \in 0..n}

\* Python slice s[lo:hi] for 0 <= lo (0-based, hi exclusive, clipped to len(s))
PySlice(s, lo, hi) == SubSeq(s, lo + 1, Min(hi, Len(s)))

-----------------------------------------------------------------------------
(***************************************************************************)
(* split_text_into_chunks, src/main.py lines 38-40                         *)
(***************************************************************************)

\* bound: longest text given to the chunker
MaxTextLen == 5

\* bound: largest max_chars given to the chunker
MaxChunkSize == 3

\* characters of the chunker's input texts
ChunkAlphabet == {"a", "b"}

\* range(0, n, step) as an ascending sequence
PyRangeStep(n, step) ==
    [k \in 1..((n + step - 1) \div step) |-> (k - 1) * step]

\* a mutant of split_text_into_chunks: the slice is one character short
split_text_into_chunks_short(t, m) ==
    [k \in 1..Len(PyRangeStep(Len(t), m)) |->
        PySlice(t, PyRangeStep(Len(t), m)[k], PyRangeStep(Len(t), m)[k] + m - 1)]

\* [text[i:i+max_chars] for i in range(0, len(text), max_chars)]
split_text_into_chunks(t, m) ==
    [k \in 1..Len(PyRangeStep(Len(t), m)) |->
        PySlice(t, PyRangeStep(Len(t), m)[k], PyRangeStep(Len(t), m)[k] + m)]

InitChunk ==
    /\ pc = "chunk"
    /\ text \in SeqsUpTo(ChunkAlphabet, MaxTextLen)
    /\ max_chars \in 1..MaxChunkSize
    /\ chunks = <<>>
    /\ num_questions = 0
    /\ difficulty = None
    /\ all_sentences = <<>>
    /\ all_entities = {}
    /\ all_nouns = {}
    /\ selected_sentences = <<>>
    /\ sentence = None
    /\ target = None
    /\ target_label = None
    /\ question_stem = None
    /\ candidates = {}
    /\ distractors = <<>>
    /\ answer_choices = <<>>
    /\ correct_answer = None
    /\ mcqs = <<>>
    /\ sent_pos = 0

SplitTextIntoChunks ==
    /\ pc = "chunk"
    /\ chunks' = split_text_into_chunks(text, max_chars)
    /\ pc' = "chunked"
    /\ UNCHANGED <<text, max_chars, num_questions, difficulty, all_sentences,
                   all_entities, all_nouns, selected_sentences, sentence, target,
                   target_label, question_stem, candidates, distractors,
                   answer_choices, correct_answer, mcqs, sent_pos>>

NextChunk == SplitTextIntoChunks

SpecChunk == InitChunk /\ [][NextChunk]_vars

\* concatenation of a sequence of sequences
RECURSIVE Concat(_)
Concat(ss) == IF ss = <<>> THEN <<>> ELSE Head(ss) \o Concat(Tail(ss))

\* C4: the chunks, in order, concatenate to the text; every chunk has length
\* between 1 and max_chars (so no empty trailing chunk when the length is an
\* exact multiple of max_chars); the empty text gives the empty sequence.
ChunksPartitionText ==
    pc = "chunked" =>
        /\ Concat(chunks) = text
        /\ \A k \in 1..Len(chunks) : Len(chunks[k]) >= 1 /\ Len(chunks[k]) <= max_chars
        /\ (text = <<>> => chunks = <<>>)
        /\ Len(chunks) * max_chars < Len(text) + max_chars

\* C4 witness: a text whose length is an exact multiple of max_chars, split in
\* more than one chunk
ChunkedExactMultiple ==
    /\ pc = "chunked"
    /\ Len(text) = 2 * max_chars
    /\ max_chars > 1
    /\ Len(chunks) = 2

-----------------------------------------------------------------------------
(***************************************************************************)
(* generate_mcqs, steps 3 and 4 of the loop body: src/main.py lines 89-136 *)
(* The state after step 1 is drawn in Init: a target with its label, the   *)
(* difficulty and the document-wide pools.  all_entities and all_nouns are *)
(* lists in the code, read only through set comprehensions over their      *)
(* texts (lines 94-106, 120-123), so they are modelled as sets.            *)
(***************************************************************************)

\* bound: number of distinct (text, label) entities in the document
MaxEntities == 3

\* bound: number of distinct noun texts in the document
MaxNouns == 3

\* the (text, label) pairs the annotator may report for the document
EntityUniverse ==
    { [text |-> "Paris",  label |-> "GPE"],
      [text |-> "France", label |-> "GPE"],
      [text |-> "Rome",   label |-> "GPE"],
      [text |-> "Oslo",   label |-> "GPE"],
      [text |-> "Alice",  label |-> "PERSON"] }

\* the NOUN token texts the annotator may report for the document
NounUniverse == {"city", "river", "tower", "bridge"}

\* the outcomes of step 1 the distractor step is run on
TargetChoices ==
    { [text |-> "Paris", label |-> "GPE"],
      [text |-> "city",  label |-> None] }

Difficulties == {"Easy", "Medium", "Hard"}

\* the literal of line 127
Placeholder == "Option"

\* subsets of S with at most n elements
SubsetsUpTo(S, n) == {X \in SUBSET S : Cardinality(X) <= n}

\* lines 94, 98, 100: the pool chosen by difficulty and target label
GatedPool(diff, tgt, label, ents, nouns) ==
    IF diff = "Easy"
    THEN {e.text : e \in {x \in ents : x.text # tgt}}
    ELSE IF label # None
         THEN {e.text : e \in {x \in ents : x.label = label /\ x.text # tgt}}
         ELSE {n \in nouns : n # tgt}

\* lines 104-107 and 120-123: all entity and noun texts other than the target
BroaderPool(tgt, ents, nouns) ==
    {e.text : e \in {x \in ents : x.text # tgt}} \cup {n \in nouns : n # tgt}

\* a mutant of CandidatePool: the pool is always broadened
CandidatePoolAlwaysBroad(diff, tgt, label, ents, nouns) ==
    GatedPool(diff, tgt, label, ents, nouns) \cup BroaderPool(tgt, ents, nouns)

\* a mutant of CandidatePool: the pool is never broadened
CandidatePoolNeverBroad(diff, tgt, label, ents, nouns) ==
    GatedPool(diff, tgt, label, ents, nouns)

\* lines 93-108: the gated pool, broadened when it has fewer than 3 members
CandidatePool(diff, tgt, label, ents, nouns) ==
    IF Cardinality(GatedPool(diff, tgt, label, ents, nouns)) < 3
    THEN GatedPool(diff, tgt, label, ents, nouns) \cup BroaderPool(tgt, ents, nouns)
    ELSE GatedPool(diff, tgt, label, ents, nouns)

\* the sequences of k distinct elements of S (all of S when it has fewer):
\* the possible first k entries of a permutation of S
RECURSIVE Prefixes(_, _)
Prefixes(S, k) ==
    IF k = 0 \/ S = {} THEN {<<>>}
    ELSE UNION {{<<x>> \o p : p \in Prefixes(S \ {x}, k - 1)} : x \in S}

\* lines 115-116: [word for word in sorted_candidates if word != target][:3],
\* sorted_candidates any permutation of candidates (the similarity ranking is
\* the embedding model's)
RankedTop(cands, tgt) == Prefixes({w \in cands : w # tgt}, 3)

\* list(dict.fromkeys(s)): first occurrences, in order
RECURSIVE DictFromKeys(_)
DictFromKeys(s) ==
    IF s = <<>> THEN <<>>
    ELSE LET front == DictFromKeys(SubSeq(s, 1, Len(s) - 1))
             last  == s[Len(s)]
         IN IF last \in Range(front) THEN front ELSE Append(front, last)

\* list.index(x) for x in s, 0-based
PyIndex(s, x) == (CHOOSE i \in 1..Len(s) : s[i] = x /\ \A j \in 1..(i - 1) : s[j] # x) - 1

\* chr(65 + i)
Chr65(i) == <<"A", "B", "C", "D", "E", "F", "G", "H">>[i + 1]

\* the permutations of 1..n
IndexPerms(n) == Prefixes(1..n, n)

\* the possible results of random.shuffle on s
Shuffles(s) == {[i \in 1..Len(s) |-> s[p[i]]] : p \in IndexPerms(Len(s))}

Init ==
    /\ pc = "candidates"
    /\ text = <<>>
    /\ max_chars = 0
    /\ chunks = <<>>
    /\ num_questions = 0
    /\ difficulty \in Difficulties
    /\ all_sentences = <<>>
    /\ all_entities \in SubsetsUpTo(EntityUniverse, MaxEntities)
    /\ all_nouns \in SubsetsUpTo(NounUniverse, MaxNouns)
    /\ sentence = None
    /\ selected_sentences = <<>>
    /\ \E t \in TargetChoices : target = t.text /\ target_label = t.label
    /\ question_stem = None
    /\ candidates = {}
    /\ distractors = <<>>
    /\ answer_choices = <<>>
    /\ correct_answer = None
    /\ mcqs = <<>>
    /\ sent_pos = 0

\* lines 90-108
BuildCandidates ==
    /\ pc = "candidates"
    /\ candidates' = CandidatePool(difficulty, target, target_label, all_entities, all_nouns)
    /\ distractors' = <<>>
    /\ pc' = "rank"
    /\ UNCHANGED <<text, max_chars, chunks, num_questions, difficulty, all_sentences,
                   all_entities, all_nouns, selected_sentences, sentence, target,
                   target_label, question_stem, answer_choices, correct_answer, mcqs, sent_pos>>

\* lines 111-116
Rank ==
    /\ pc = "rank"
    /\ IF candidates # {}
       THEN distractors' \in RankedTop(candidates, target)
       ELSE distractors' = distractors
    /\ pc' = "fallback"
    /\ UNCHANGED <<text, max_chars, chunks, num_questions, difficulty, all_sentences,
                   all_entities, all_nouns, selected_sentences, sentence, target,
                   target_label, question_stem, candidates, answer_choices,
                   correct_answer, mcqs, sent_pos>>

\* lines 119-127, one iteration of the while loop
Fallback ==
    /\ pc = "fallback"
    /\ Len(distractors) < 3
    /\ LET fallback_pool == BroaderPool(target, all_entities, all_nouns)
       IN IF fallback_pool # {}
          THEN \E w \in fallback_pool : distractors' = Append(distractors, w)
          ELSE distractors' = Append(distractors, Placeholder)
    /\ UNCHANGED <<pc, text, max_chars, chunks, num_questions, difficulty,
                   all_sentences, all_entities, all_nouns, selected_sentences,
                   sentence, target, target_label, question_stem, candidates,
                   answer_choices, correct_answer, mcqs, sent_pos>>

\* line 130: list(dict.fromkeys(distractors))[:3]
TrimDistractors(d) == PySlice(DictFromKeys(d), 0, 3)

\* line 130, once the while loop has ended
Dedup ==
    /\ pc = "fallback"
    /\ ~(Len(distractors) < 3)
    /\ distractors' = TrimDistractors(distractors)
    /\ pc' = "finalize"
    /\ UNCHANGED <<text, max_chars, chunks, num_questions, difficulty, all_sentences,
                   all_entities, all_nouns, selected_sentences, sentence, target,
                   target_label, question_stem, candidates, answer_choices,
                   correct_answer, mcqs, sent_pos>>

\* lines 133-136
Finalize ==
    /\ pc = "finalize"
    /\ answer_choices' \in Shuffles(<<target>> \o PySlice(distractors, 0, 3))
    /\ correct_answer' = Chr65(PyIndex(answer_choices', target))
    /\ mcqs' = Append(mcqs, [answer_choices |-> answer_choices',
                             correct_answer |-> correct_answer'])
    /\ pc' = "done"
    /\ UNCHANGED <<text, max_chars, chunks, num_questions, difficulty, all_sentences,
                   all_entities, all_nouns, selected_sentences, sentence, target,
                   target_label, question_stem, candidates, distractors, sent_pos>>

Next == BuildCandidates \/ Rank \/ Fallback \/ Dedup \/ Finalize

Spec == Init /\ [][Next]_vars

\* C1: every returned MCQ record has exactly 4 pairwise distinct answer
\* choices, holds the target text exactly once, and its correct-answer code is
\* the letter A-D whose indexed choice is the target text.
McqRecordWellFormed ==
    \A k \in 1..Len(mcqs) :
        LET ch   == mcqs[k].answer_choices
            code == mcqs[k].correct_answer
        IN /\ Len(ch) = 4
           /\ \A i, j \in 1..Len(ch) : ch[i] = ch[j] => i = j
           /\ Cardinality({i \in 1..Len(ch) : ch[i] = target}) = 1
           /\ \E i \in 1..4 :
                 code = <<"A", "B", "C", "D">>[i] /\ i <= Len(ch) /\ ch[i] = target

\* C2: the distractor step (padding, deduplication, trimming) ends with
\* exactly 3 distractors.
ExactlyThreeDistractors ==
    pc \in {"finalize", "done"} => Len(distractors) = 3

\* C9: the ranked pool is the difficulty-gated pool (Easy: entity texts;
\* Medium/Hard with a label: entity texts of that label; Medium/Hard without a
\* label: noun texts; the target excluded), unioned with all entity and noun
\* texts other than the target exactly when it has fewer than 3 members; when
\* the gated pool has at least 3 members every distractor belongs to it; and
\* no ranked distractor equals the target.
CandidatePoolIsGated ==
    pc \in {"rank", "fallback", "finalize", "done"} =>
        LET entTexts  == {e.text : e \in all_entities}
            sameLabel == {e.text : e \in {x \in all_entities : x.label = target_label}}
            gated == (IF difficulty = "Easy" THEN entTexts
                      ELSE IF target_label # None THEN sameLabel
                      ELSE all_nouns) \ {target}
            broad == (entTexts \cup all_nouns) \ {target}
            ranked == Min(Len(distractors), Min(3, Cardinality(candidates)))
        IN /\ candidates = IF Cardinality(gated) >= 3 THEN gated ELSE gated \cup broad
           /\ (Cardinality(gated) >= 3 => Range(distractors) \subseteq gated)
           /\ (pc # "rank" =>
                 \A i \in 1..ranked :
                     distractors[i] # target /\ distractors[i] \in candidates)

\* C9 witness: a Medium record for a labelled target whose label pool has 3
\* members while the document holds further entity or noun texts
GatedPoolSufficed ==
    /\ pc = "done"
    /\ difficulty = "Medium"
    /\ target_label = "GPE"
    /\ Cardinality(candidates) = 3
    /\ Cardinality(BroaderPool(target, all_entities, all_nouns)) > 3
    /\ Range(distractors) = candidates

\* C10: when the document's entity and noun texts other than the target number
\* at least 3, ranking alone yields 3 distinct distractors, the fallback loop is
\* not entered (so the placeholder is not inserted), and the record has exactly
\* 4 distinct choices.
RankingAloneSuffices ==
    LET others == ({e.text : e \in all_entities} \cup all_nouns) \ {target}
    IN Cardinality(others) >= 3 =>
        /\ (pc \in {"fallback", "finalize", "done"} =>
              /\ Len(distractors) = 3
              /\ Cardinality(Range(distractors)) = 3
              /\ Range(distractors) \subseteq candidates
              /\ Placeholder \notin Range(distractors))
        /\ ~ ENABLED Fallback
        /\ (pc = "done" =>
              /\ Len(answer_choices) = 4
              /\ Cardinality(Range(answer_choices)) = 4)

\* C10 witness: a record built after the gated pool (fewer than 3 members) was
\* broadened to at least 3 texts
BroadenedPoolSufficed ==
    /\ pc = "done"
    /\ Cardinality(GatedPool(difficulty, target, target_label, all_entities, all_nouns)) < 3
    /\ Cardinality(candidates) >= 3
    /\ Len(answer_choices) = 4
    /\ Cardinality(Range(answer_choices)) = 4

-----------------------------------------------------------------------------
(***************************************************************************)
(* generate_mcqs, step 2 of the loop body: src/main.py lines 77-87         *)
(* The sentence and the target are sequences of characters.  The target    *)
(* is the text of an entity or token of the sentence (lines 63-74), hence  *)
(* a non-empty substring of it that neither starts nor ends with white     *)
(* space.                                                                  *)
(***************************************************************************)

\* bound: longest sentence given to the stem builder
MaxSentenceLen == 7

\* characters of the sentences
StemAlphabet == {"a", " ", "_"}

\* str.isspace for one character
IsSpace(c) == c \in {" ", "\t", "\n"}

\* the labels the stem builder is run with
StemLabels == {"GPE", None}

\* the literal "_______" of lines 79 and 84
Blank == <<"_", "_", "_", "_", "_", "_", "_">>

\* old in s, for strings
Contains(s, old) ==
    \E i \in 1..(Len(s) - Len(old) + 1) : SubSeq(s, i, i + Len(old) - 1) = old

\* s.replace(old, new) for a non-empty old: leftmost non-overlapping occurrences
RECURSIVE PyReplace(_, _, _)
PyReplace(s, old, new) ==
    IF Len(s) < Len(old) THEN s
    ELSE IF SubSeq(s, 1, Len(old)) = old
         THEN new \o PyReplace(SubSeq(s, Len(old) + 1, Len(s)), old, new)
         ELSE <<Head(s)>> \o PyReplace(Tail(s), old, new)

\* s.split(): the maximal runs of non-space characters (cur: the run being
\* read, acc: the runs read so far)
RECURSIVE SplitFrom(_, _, _)
SplitFrom(s, cur, acc) ==
    IF s = <<>> THEN (IF cur = <<>> THEN acc ELSE Append(acc, cur))
    ELSE IF IsSpace(Head(s))
         THEN SplitFrom(Tail(s), <<>>, IF cur = <<>> THEN acc ELSE Append(acc, cur))
         ELSE SplitFrom(Tail(s), Append(cur, Head(s)), acc)

PySplit(s) == SplitFrom(s, <<>>, <<>>)

\* " ".join(words)
RECURSIVE PyJoin(_)
PyJoin(words) ==
    IF words = <<>> THEN <<>>
    ELSE IF Len(words) = 1 THEN words[1]
    ELSE words[1] \o <<" ">> \o PyJoin(Tail(words))

\* words[lo:hi] = [x] for 0 <= lo <= hi <= len(words)
PySetSlice(words, lo, hi, x) ==
    SubSeq(words, 1, lo) \o <<x>> \o SubSeq(words, hi + 1, Len(words))

\* line 79
EasyStem(sent, tgt) == PyReplace(sent, tgt, Blank)

\* a mutant of MediumStem: the replaced span ends at the target (idx + 1)
MediumStemShortSpan(sent, tgt) ==
    LET words == PySplit(sent)
        idx   == IF tgt \in Range(words) THEN PyIndex(words, tgt) ELSE -1
    IN IF idx > 0
       THEN PyJoin(PySetSlice(words, Max(0, idx - 1), Min(Len(words), idx + 1), Blank))
       ELSE PyJoin(words)

\* lines 81-85
MediumStem(sent, tgt) ==
    LET words == PySplit(sent)
        idx   == IF tgt \in Range(words) THEN PyIndex(words, tgt) ELSE -1
    IN IF idx > 0
       THEN PyJoin(PySetSlice(words, Max(0, idx - 1), Min(Len(words), idx + 2), Blank))
       ELSE PyJoin(words)

\* line 87; the literal parts of the f-string are kept as single elements
HardStem(label) ==
    <<"Fill in the blank: ">> \o Blank \o
    <<" (Topic related to '", IF label # None THEN label ELSE "the text", "')">>

\* the texts an entity or token of the sentence can have
TargetsOf(sent) ==
    {t \in {SubSeq(sent, i, j) : i \in 1..Len(sent), j \in 1..Len(sent)} :
        t # <<>> /\ ~IsSpace(t[1]) /\ ~IsSpace(t[Len(t)])}

InitStem ==
    /\ pc = "stem"
    /\ text = <<>>
    /\ max_chars = 0
    /\ chunks = <<>>
    /\ num_questions = 0
    /\ difficulty \in Difficulties
    /\ all_sentences = <<>>
    /\ all_entities = {}
    /\ all_nouns = {}
    /\ selected_sentences = <<>>
    /\ sentence \in SeqsUpTo(StemAlphabet, MaxSentenceLen)
    /\ target \in TargetsOf(sentence)
    /\ target_label \in StemLabels
    /\ question_stem = <<>>
    /\ candidates = {}
    /\ distractors = <<>>
    /\ answer_choices = <<>>
    /\ correct_answer = None
    /\ mcqs = <<>>
    /\ sent_pos = 0

\* lines 78-87
BuildStem ==
    /\ pc = "stem"
    /\ question_stem' =
          IF difficulty = "Easy" THEN EasyStem(sentence, target)
          ELSE IF difficulty = "Medium" THEN MediumStem(sentence, target)
          ELSE HardStem(target_label)
    /\ pc' = "stemmed"
    /\ UNCHANGED <<text, max_chars, chunks, num_questions, difficulty, all_sentences,
                   all_entities, all_nouns, selected_sentences, sentence, target,
                   target_label, candidates, distractors, answer_choices,
                   correct_answer, mcqs, sent_pos>>

NextStem == BuildStem

SpecStem == InitStem /\ [][NextStem]_vars

\* C5: an Easy stem does not contain the target as a substring.
EasyStemMasksTarget ==
    (pc = "stemmed" /\ difficulty = "Easy") => ~Contains(question_stem, target)

\* C6 as stated: with the sentence split on white space, if the first token
\* equal to the target is at position i > 0 the stem is the tokens with the
\* span i-1..i+1 (clipped to the end) replaced by one blank; otherwise the stem
\* is the sentence unmodified.
MediumStemElseSentence ==
    (pc = "stemmed" /\ difficulty = "Medium") =>
        LET toks == PySplit(sentence)
            occ  == {i \in 1..Len(toks) : toks[i] = target}
            frst == CHOOSE i \in occ : \A j \in occ : i <= j
        IN IF occ # {} /\ frst > 1
           THEN question_stem =
                  PyJoin(SubSeq(toks, 1, frst - 2) \o <<Blank>> \o
                         SubSeq(toks, frst + 2, Len(toks)))
           ELSE question_stem = sentence

\* C6 amended: as above, but when the target is the first token or no token
\* the stem is the sentence's tokens joined by single spaces, none replaced;
\* it is the sentence itself when the sentence is already in that form.
MediumStemElseJoinedTokens ==
    (pc = "stemmed" /\ difficulty = "Medium") =>
        LET toks == PySplit(sentence)
            occ  == {i \in 1..Len(toks) : toks[i] = target}
            frst == CHOOSE i \in occ : \A j \in occ : i <= j
        IN IF occ # {} /\ frst > 1
           THEN question_stem =
                  PyJoin(SubSeq(toks, 1, frst - 2) \o <<Blank>> \o
                         SubSeq(toks, frst + 2, Len(toks)))
           ELSE /\ question_stem = PyJoin(toks)
                /\ PySplit(question_stem) = toks
                /\ (sentence = PyJoin(toks) => question_stem = sentence)

\* C6 witness: the target is the second of four tokens, so the span i-1..i+1
\* is replaced and the fourth token is kept
MediumStemMaskedSpan ==
    /\ pc = "stemmed"
    /\ difficulty = "Medium"
    /\ Len(PySplit(sentence)) = 4
    /\ PySplit(sentence)[2] = target
    /\ PySplit(sentence)[1] # target
    /\ PySplit(question_stem) = <<Blank, PySplit(sentence)[4]>>

\* C7: a Medium stem whose target is a labelled entity occurring as a
\* white-space delimited token of the sentence, at any position, contains
\* exactly one blank token.
MediumStemSingleBlank ==
    (/\ pc = "stemmed"
     /\ difficulty = "Medium"
     /\ target_label # None
     /\ target \in Range(PySplit(sentence))) =>
        Cardinality({i \in 1..Len(PySplit(question_stem)) :
                        PySplit(question_stem)[i] = Blank}) = 1

-----------------------------------------------------------------------------
(***************************************************************************)
(* generate_mcqs, input guard, sampling and the loop with step 1:          *)
(* src/main.py lines 42-75 and 136-138.                                    *)
(* The argument text is a record: a str with its characters, None, or an   *)
(* int.  A sentence of the document is represented by the annotation that  *)
(* nlp(sentence) gives for it at line 63: its entities in annotator order  *)
(* and its tokens with their part-of-speech tags.  Steps 2-4 of the loop   *)
(* body (lines 77-136) are modelled by SpecStem and Spec; here BuildMcq    *)
(* appends the record with the target and label it was built for.          *)
(***************************************************************************)

\* bound: longest str given as text
MaxInputLen == 2

\* bound: largest num_questions
MaxRequested == 3

\* bound: number of sentences the annotator finds in the document
MaxSentences == 2

\* default of max_chars
DefaultMaxChars == 80000

\* characters of the input texts
InputAlphabet == {"a", " "}

\* the values given as text
TextInputs ==
    {[kind |-> "str", val |-> v] : v \in SeqsUpTo(InputAlphabet, MaxInputLen)} \cup
    {[kind |-> "None", val |-> 0], [kind |-> "int", val |-> 0], [kind |-> "int", val |-> 5]}

\* line 66
AllowedLabels == {"PERSON", "ORG", "GPE", "DATE"}

\* annotations nlp(sentence) may give
SentenceAnnotations ==
    { \* Paris is the capital of France.
      [ents   |-> <<[text |-> "Paris", label |-> "GPE"], [text |-> "France", label |-> "GPE"]>>,
       tokens |-> <<[text |-> "Paris", pos |-> "PROPN"], [text |-> "is", pos |-> "AUX"],
                    [text |-> "capital", pos |-> "NOUN"]>>],
      \* Two engineers met Alice.
      [ents   |-> <<[text |-> "Two", label |-> "CARDINAL"], [text |-> "Alice", label |-> "PERSON"]>>,
       tokens |-> <<[text |-> "engineers", pos |-> "NOUN"], [text |-> "met", pos |-> "VERB"]>>],
      \* The tower has two floors.
      [ents   |-> <<[text |-> "two", label |-> "CARDINAL"]>>,
       tokens |-> <<[text |-> "The", pos |-> "DET"], [text |-> "tower", pos |-> "NOUN"],
                    [text |-> "floors", pos |-> "NOUN"]>>],
      \* It rained.
      [ents   |-> <<>>,
       tokens |-> <<[text |-> "It", pos |-> "PRON"], [text |-> "rained", pos |-> "VERB"]>>],
      \* Seven ran.
      [ents   |-> <<[text |-> "Seven", label |-> "CARDINAL"]>>,
       tokens |-> <<[text |-> "ran", pos |-> "VERB"]>>] }

\* bool(x)
Truthy(x) ==
    IF x.kind = "str" THEN x.val # <<>>
    ELSE IF x.kind = "int" THEN x.val # 0
    ELSE FALSE

\* s.strip()
RECURSIVE PyStrip(_)
PyStrip(s) ==
    IF s = <<>> THEN s
    ELSE IF IsSpace(Head(s)) THEN PyStrip(Tail(s))
    ELSE IF IsSpace(s[Len(s)]) THEN PyStrip(SubSeq(s, 1, Len(s) - 1))
    ELSE s

\* a mutant of InputRejected: white space is not stripped
InputRejectedNoStrip(x) ==
    IF ~Truthy(x) THEN TRUE
    ELSE x.kind # "str"

\* line 43: not text or not isinstance(text, str) or not text.strip(),
\* evaluated left to right
InputRejected(x) ==
    IF ~Truthy(x) THEN TRUE
    ELSE IF x.kind # "str" THEN TRUE
    ELSE PyStrip(x.val) = <<>>

\* random.sample(population, k): the population's entries at k distinct
\* positions, in any order
RandomSamples(population, k) ==
    {[i \in 1..k |-> population[p[i]]] : p \in Prefixes(1..Len(population), k)}

\* a mutant of SelectTarget: the first entity is taken whatever its label
SelectTargetAnyLabel(sent_doc) ==
    LET entities == sent_doc.ents
        nouns    == SelectSeq(sent_doc.tokens, LAMBDA t : t.pos = "NOUN")
    IN IF entities # <<>>
       THEN [found |-> TRUE, target |-> entities[1].text, target_label |-> entities[1].label]
       ELSE IF nouns = <<>>
            THEN [found |-> FALSE, target |-> None, target_label |-> None]
            ELSE [found |-> TRUE, target |-> nouns[1].text, target_label |-> None]

\* lines 66-75; found = FALSE is the continue of line 73
SelectTarget(sent_doc) ==
    LET entities == SelectSeq(sent_doc.ents, LAMBDA e : e.label \in AllowedLabels)
        nouns    == SelectSeq(sent_doc.tokens, LAMBDA t : t.pos = "NOUN")
    IN IF entities # <<>>
       THEN [found |-> TRUE, target |-> entities[1].text, target_label |-> entities[1].label]
       ELSE IF nouns = <<>>
            THEN [found |-> FALSE, target |-> None, target_label |-> None]
            ELSE [found |-> TRUE, target |-> nouns[1].text, target_label |-> None]

InitSelect ==
    /\ pc = "start"
    /\ text \in TextInputs
    /\ max_chars = DefaultMaxChars
    /\ chunks = <<>>
    /\ num_questions \in 1..MaxRequested
    /\ difficulty \in Difficulties
    /\ all_sentences = <<>>
    /\ all_entities = {}
    /\ all_nouns = {}
    /\ selected_sentences = <<>>
    /\ sentence = None
    /\ target = None
    /\ target_label = None
    /\ question_stem = None
    /\ candidates = {}
    /\ distractors = <<>>
    /\ answer_choices = <<>>
    /\ correct_answer = None
    /\ mcqs = <<>>
    /\ sent_pos = 0

\* lines 43-44
ReturnEmpty ==
    /\ pc = "start"
    /\ InputRejected(text)
    /\ pc' = "returned"
    /\ UNCHANGED <<text, max_chars, chunks, num_questions, difficulty, all_sentences,
                   all_entities, all_nouns, selected_sentences, sentence, target,
                   target_label, question_stem, candidates, distractors,
                   answer_choices, correct_answer, mcqs, sent_pos>>

\* lines 47-60: the chunks are annotated and the sentences sampled
AnnotateAndSample ==
    /\ pc = "start"
    /\ ~InputRejected(text)
    /\ chunks' = split_text_into_chunks(text.val, max_chars)
    /\ all_sentences' \in SeqsUpTo(SentenceAnnotations, MaxSentences)
    /\ all_entities' = UNION {Range(all_sentences'[i].ents) : i \in 1..Len(all_sentences')}
    /\ all_nouns' = UNION {{t.text : t \in {u \in Range(all_sentences'[i].tokens) : u.pos = "NOUN"}} :
                             i \in 1..Len(all_sentences')}
    /\ selected_sentences' \in
          RandomSamples(all_sentences', Min(num_questions, Len(all_sentences')))
    /\ mcqs' = <<>>
    /\ sent_pos' = 0
    /\ pc' = "loop"
    /\ UNCHANGED <<text, max_chars, num_questions, difficulty, sentence, target,
                   target_label, question_stem, candidates, distractors,
                   answer_choices, correct_answer>>

\* lines 62-75: the next selected sentence is annotated and its target picked;
\* without a target the loop continues
PickTarget ==
    /\ pc = "loop"
    /\ sent_pos < Len(selected_sentences)
    /\ sent_pos' = sent_pos + 1
    /\ sentence' = selected_sentences[sent_pos']
    /\ LET picked == SelectTarget(sentence')
       IN IF picked.found
          THEN /\ target' = picked.target
               /\ target_label' = picked.target_label
               /\ pc' = "build"
          ELSE /\ UNCHANGED <<target, target_label>>
               /\ pc' = "loop"
    /\ UNCHANGED <<text, max_chars, chunks, num_questions, difficulty, all_sentences,
                   all_entities, all_nouns, selected_sentences, question_stem,
                   candidates, distractors, answer_choices, correct_answer, mcqs>>

\* lines 77-136: the record for the current target is appended
BuildMcq ==
    /\ pc = "build"
    /\ difficulty \in Difficulties
    /\ mcqs' = Append(mcqs, [target |-> target, target_label |-> target_label])
    /\ pc' = "loop"
    /\ UNCHANGED <<text, max_chars, chunks, num_questions, difficulty, all_sentences,
                   all_entities, all_nouns, selected_sentences, sentence, target,
                   target_label, question_stem, candidates, distractors,
                   answer_choices, correct_answer, sent_pos>>

\* line 138
ReturnMcqs ==
    /\ pc = "loop"
    /\ sent_pos = Len(selected_sentences)
    /\ pc' = "returned"
    /\ UNCHANGED <<text, max_chars, chunks, num_questions, difficulty, all_sentences,
                   all_entities, all_nouns, selected_sentences, sentence, target,
                   target_label, question_stem, candidates, distractors,
                   answer_choices, correct_answer, mcqs, sent_pos>>

NextSelect == ReturnEmpty \/ AnnotateAndSample \/ PickTarget \/ BuildMcq \/ ReturnMcqs

SpecSelect == InitSelect /\ [][NextSelect]_vars

\* C3: the call always comes to its return; from an empty, white-space-only or
\* non-str text it returns the empty sequence; otherwise the length of the
\* result is the number of sampled sentences with a target (an allowed entity
\* or a NOUN token) and is at most min(num_questions, number of sentences).
ReturnsOnePerTargetSentence ==
    /\ (pc # "returned" => ENABLED NextSelect)
    /\ (pc = "returned" =>
          LET blank == text.kind = "str" /\ \A i \in 1..Len(text.val) : text.val[i] = " "
              withTarget == {i \in 1..Len(selected_sentences) :
                                \/ \E k \in 1..Len(selected_sentences[i].ents) :
                                      selected_sentences[i].ents[k].label \in
                                          {"PERSON", "ORG", "GPE", "DATE"}
                                \/ \E k \in 1..Len(selected_sentences[i].tokens) :
                                      selected_sentences[i].tokens[k].pos = "NOUN"}
          IN IF text.kind # "str" \/ blank
             THEN mcqs = <<>>
             ELSE /\ Len(mcqs) = Cardinality(withTarget)
                  /\ Len(mcqs) <= Min(num_questions, Len(all_sentences)))

\* C3 witness: 3 questions requested of a document of 2 sentences, of which
\* one has a target: one record is returned
ReturnedFewerThanRequested ==
    /\ pc = "returned"
    /\ num_questions = 3
    /\ Len(all_sentences) = 2
    /\ Len(selected_sentences) = 2
    /\ Len(mcqs) = 1

\* C8: the record built for a sampled sentence has the text and label of the
\* sentence's first entity of an allowed type, if there is one; otherwise the
\* text of its first NOUN token and no label; a sentence with neither gets no
\* record and the loop goes on with the next sampled sentence.
TargetIsFirstAllowedEntityElseFirstNoun ==
    pc \in {"loop", "returned"} =>
        LET allowedAt(a) == {k \in 1..Len(a.ents) :
                                a.ents[k].label \in {"PERSON", "ORG", "GPE", "DATE"}}
            nounAt(a)    == {k \in 1..Len(a.tokens) : a.tokens[k].pos = "NOUN"}
            least(S)     == CHOOSE k \in S : \A j \in S : k <= j
            hasTarget(a) == allowedAt(a) # {} \/ nounAt(a) # {}
            expected(a)  == IF allowedAt(a) # {}
                            THEN [target       |-> a.ents[least(allowedAt(a))].text,
                                  target_label |-> a.ents[least(allowedAt(a))].label]
                            ELSE [target       |-> a.tokens[least(nounAt(a))].text,
                                  target_label |-> None]
            taken    == SubSeq(selected_sentences, 1, sent_pos)
            yielding == SelectSeq(taken, hasTarget)
        IN mcqs = [k \in 1..Len(yielding) |-> expected(yielding[k])]

\* C8 witness: a sentence without a target was skipped and the next sampled
\* sentence, whose first entity is not of an allowed type, gave a record
SkippedThenPickedSecondEntity ==
    /\ pc = "returned"
    /\ Len(selected_sentences) = 2
    /\ selected_sentences[1].ents = <<>>
    /\ Len(selected_sentences[2].ents) = 2
    /\ selected_sentences[2].ents[1].label = "CARDINAL"
    /\ mcqs = <<[target |-> "Alice", target_label |-> "PERSON"]>>

====
